---- MODULE Spec2Model ----
(***************************************************************************)
(* Model of src/main.py: the honeypot endpoint handle_honeypot_request,    *)
(* the process-wide session_store, the Gemini REST call (the Gateway) and  *)
(* send_final_report (the Report Dispatcher).                              *)
(*                                                                         *)
(* A request handler is a process with a program counter.  It suspends at  *)
(* the two blocking calls only: requests.post to Gemini (pc = "gateway")   *)
(* and requests.post inside send_final_report (pc = "report").  Python     *)
(* lists are objects: conversation_history is a reference into heap, and   *)
(* session_store[sid]["history"] may be the very same object.              *)
(***************************************************************************)
EXTENDS Integers, Sequences, FiniteSets, TLC

\* ------------------------------------------------------------------ bounds
\* Longest conversation history a turn may produce.
MaxHistLen == 4

\* --------------------------------------------------------------- universes
Handlers == {"h1", "h2"}
Sessions == {"s1", "s2"}
Texts == {"hello", ""}
Replies == {"hi"}
Notes == {"note"}
Artifacts == {"a1", "a2"}
Categories == {"bankAccounts", "upiIds", "phishingLinks", "phoneNumbers", "suspiciousKeywords"}

\* Python's None, where a string is expected.
NoneVal == "<None>"
\* The configured secret, os.getenv("YOUR_SECRET_API_KEY").
YOUR_API_KEY == "secret"
ApiKeys == {NoneVal, "wrong", YOUR_API_KEY}

\* HTTP status codes returned by the handler.
StatusOk == 200
StatusBadRequest == 400
StatusUnauthorized == 401
StatusInternal == 500
StatusUpstream == 502

\* ------------------------------------------------------------ data shapes
\* A Turn-shaped dict of a history, or the incoming message.
ScammerTurn(t) == [sender |-> "scammer", text |-> t, timestamp |-> "t0"]
\* The dict appended for the agent's reply (lines 163-167).
AgentTurn(t) == [sender |-> "agent", text |-> t, timestamp |-> "N/A"]

\* The conversationHistory values a caller may send.
RequestHistories ==
    {<< >>, <<ScammerTurn("hello")>>, <<ScammerTurn("hello"), AgentTurn("hi")>>}

\* The empty dict {} and the empty list [].
EmptyDict == [c \in {} |-> {}]
EmptyList == << >>

\* extractedIntelligence values the model may return: a dict over some of
\* the categories (the response schema requires none of them).  The code
\* treats the dict as a whole, so two categories stand for the five.
Deltas ==
    {EmptyDict, [k \in {"upiIds"} |-> {"a1"}], [k \in {"upiIds"} |-> {"a2"}],
     [k \in {"bankAccounts"} |-> {"a1"}]}

\* The four fields RESPONSE_SCHEMA lists as required (line 56).
RequiredFields == {"agentResponseText", "isConversationOver", "extractedIntelligence", "agentNotes"}

\* The sets of fields a reply may hold: all four, all but one, or none.
FieldSets == {RequiredFields, {}} \cup {RequiredFields \ {f} : f \in RequiredFields}

\* The parsed embedded payload (model_output): a dict holding some of the
\* four fields.  A field that is absent carries a fixed filler value that
\* nothing reads.
ModelOutputs ==
    {mo \in [has : FieldSets,
             agentResponseText : Replies,
             isConversationOver : BOOLEAN,
             extractedIntelligence : Deltas,
             agentNotes : Notes] :
        /\ ("agentResponseText" \notin mo.has => mo.agentResponseText = "hi")
        /\ ("isConversationOver" \notin mo.has => mo.isConversationOver = FALSE)
        /\ ("extractedIntelligence" \notin mo.has => mo.extractedIntelligence = EmptyDict)
        /\ ("agentNotes" \notin mo.has => mo.agentNotes = "note")}

NoModelOutput ==
    [has |-> {}, agentResponseText |-> "hi", isConversationOver |-> FALSE,
     extractedIntelligence |-> EmptyDict, agentNotes |-> "note"]

\* dict.get(key, default) on model_output (lines 156-159).
Get(mo, key, default) == IF key \in mo.has THEN mo[key] ELSE default

\* The request body: get_json() gives a dict holding some of the keys.
BodyKeys == {"sessionId", "message", "conversationHistory"}
Messages == {ScammerTurn(t) : t \in Texts}
\* A message that is no JSON object (a string, a number): .get does not exist.
NotAnObject == [sender |-> "scammer", text |-> "not-an-object", timestamp |-> "t0"]
RequestBodies ==
    {d \in [has : SUBSET BodyKeys,
            sessionId : Sessions,
            message : Messages \cup {NotAnObject},
            conversationHistory : RequestHistories] :
        /\ ("sessionId" \notin d.has => d.sessionId = "s1")
        /\ ("message" \notin d.has => d.message = ScammerTurn("hello"))
        /\ ("conversationHistory" \notin d.has => d.conversationHistory = EmptyList)}

NoData == [has |-> {}, sessionId |-> "s1", message |-> ScammerTurn("hello"),
           conversationHistory |-> EmptyList]

\* How the call to Gemini (lines 148-154) may end.
\*   ok                   200 and a parsable envelope and payload
\*   connection_error     requests.post raises (ConnectionError, Timeout)
\*   http_error           raise_for_status raises HTTPError; the handler at
\*                        lines 192-210 finishes
\*   http_error_odd_body  HTTPError, and the error body is JSON of a shape
\*                        that makes line 199 raise TypeError
\*   bad_envelope         response.json() fails or candidates[0]... is absent
\*   bad_payload          json.loads of the embedded text fails
GatewayFailures == {"connection_error", "http_error", "http_error_odd_body", "bad_envelope", "bad_payload"}
GatewayResults == {"ok"} \cup GatewayFailures

\* How requests.post inside send_final_report (lines 87-93) may end.
\*   ok                  status 200
\*   non_200             another status: printed, nothing raised
\*   request_exception   requests.RequestException: caught at line 92
\*   other_exception     any exception that is no RequestException (print
\*                       failing on the response text, for one)
DispatchResults == {"ok", "non_200", "request_exception", "other_exception"}

\* --------------------------------------------------------------- the heap
NullRef == 0
ObjIds == 1 .. (Cardinality(Sessions) + Cardinality(Handlers))

VARIABLES
    session_store,         \* dict: sessionId -> [history (a ref), intelligence, agent_notes]
    heap,                  \* list objects: ref -> sequence of turns
    pc,                    \* per handler: "idle", "gateway", "report", "done"
    x_api_key,             \* per handler: local api_key, the x-api-key header
    data,                  \* per handler: local data, the request body
    session_id,            \* per handler: local session_id
    incoming_message,      \* per handler: local incoming_message
    conversation_history,  \* per handler: local conversation_history (a ref)
    contents,              \* per handler: the transcript sent to Gemini
    gateway_result,        \* per handler: how the Gemini call ended
    model_output,          \* per handler: local model_output
    dispatch_result,       \* per handler: how the report call ended
    report,                \* per handler: payload given to the evaluation endpoint
    response,              \* per handler: the HTTP response returned
    calls,                 \* per handler: the calls made to Gemini and to the evaluation
                           \* endpoint while serving the request
    turn_log,              \* history: per session, the (message, reply) pairs appended since it was
                           \* fresh; kept only while every turn ran on the stored history
    cumulative,            \* history: per session, the union of the deltas since it was fresh
    explicit_used,         \* history: per session, some turn since fresh used the caller's history
    terminated,            \* history: the sessions whose last turn to get an answer from
                           \* Gemini, or none, was a successful terminal one
    stale,                 \* history: the handlers that were serving a session when another
                           \* handler evicted it
    store_before           \* history: per handler, the store's content when the request arrived

vars == <<session_store, heap, pc, x_api_key, data, session_id, incoming_message,
          conversation_history, contents, gateway_result, model_output, dispatch_result,
          report, response, calls, turn_log, cumulative, explicit_used, terminated, stale,
          store_before>>

locals == <<x_api_key, data, session_id, incoming_message, conversation_history, contents>>
history_vars == <<turn_log, cumulative, explicit_used, terminated, stale>>

NoCalls == [gateway |-> 0, report |-> 0]

NoResponse == [code |-> 0, body |-> [status |-> "none"]]
NoReport == [sessionId |-> "none"]
NoIntelligence == [c \in Categories |-> {}]

\* The store with every reference replaced by the list it points to.
StoreView(store, hp) ==
    [s \in DOMAIN store |->
        [history |-> hp[store[s].history],
         intelligence |-> store[s].intelligence,
         agent_notes |-> store[s].agent_notes]]

NoStoreView == StoreView([s \in {} |-> [history |-> NullRef]], [o \in {} |-> EmptyList])

\* The artifacts a dict holds in a category (none when the key is absent).
ArtifactsIn(intel, c) == IF c \in DOMAIN intel THEN intel[c] ELSE {}

\* References held by the store or by a running handler.
InUse(store, ch) ==
    {store[s].history : s \in DOMAIN store} \cup ({ch[h] : h \in Handlers} \ {NullRef})

\* Lists nothing refers to are garbage: their content is dropped.
Collect(hp, store, ch) ==
    [o \in ObjIds |-> IF o \in InUse(store, ch) THEN hp[o] ELSE EmptyList]

\* The reference of a newly built list.
FreshRef ==
    CHOOSE o \in ObjIds :
        /\ o \notin InUse(session_store, conversation_history)
        /\ \A p \in ObjIds : p \notin InUse(session_store, conversation_history) => o <= p

Init ==
    /\ session_store = [s \in {} |-> [history |-> NullRef, intelligence |-> EmptyDict, agent_notes |-> ""]]
    /\ heap = [o \in ObjIds |-> EmptyList]
    /\ pc = [h \in Handlers |-> "idle"]
    /\ x_api_key = [h \in Handlers |-> NoneVal]
    /\ data = [h \in Handlers |-> NoData]
    /\ session_id = [h \in Handlers |-> "s1"]
    /\ incoming_message = [h \in Handlers |-> ScammerTurn("hello")]
    /\ conversation_history = [h \in Handlers |-> NullRef]
    /\ contents = [h \in Handlers |-> EmptyList]
    /\ gateway_result = [h \in Handlers |-> "none"]
    /\ model_output = [h \in Handlers |-> NoModelOutput]
    /\ dispatch_result = [h \in Handlers |-> "none"]
    /\ report = [h \in Handlers |-> NoReport]
    /\ response = [h \in Handlers |-> NoResponse]
    /\ calls = [h \in Handlers |-> NoCalls]
    /\ turn_log = [s \in Sessions |-> EmptyList]
    /\ cumulative = [s \in Sessions |-> NoIntelligence]
    /\ explicit_used = [s \in Sessions |-> FALSE]
    /\ terminated = {}
    /\ stale = {}
    /\ store_before = [h \in Handlers |-> NoStoreView]


\* ------------------------------------------------------------- responses
\* jsonify({"status": "error", "message": ...}), code
ErrorResponse(code, message) == [code |-> code, body |-> [status |-> "error", message |-> message]]
\* An exception nothing in the handler catches: the framework's own 500 page.
UnhandledResponse == [code |-> StatusInternal, body |-> [html |-> "Internal Server Error"]]
\* The success body (lines 183-190).
SuccessResponse(reply, over, sid, intel, notes) ==
    [code |-> StatusOk,
     body |-> [status |-> "success", agentReply |-> reply, conversationIsOver |-> over,
               sessionId |-> sid, extractedIntelligence |-> intel, agentNotes |-> notes]]
SuccessFields == {"agentReply", "conversationIsOver", "sessionId", "extractedIntelligence", "agentNotes"}

\* ------------------------------------------------------- store operations
\* session_store[sid] = entry (line 169)
\* The store replaced by one holding the session alone.
PutAlone(store, sid, entry) == [s \in {sid} |-> entry]

Put(store, sid, entry) ==
    [s \in DOMAIN store \cup {sid} |-> IF s = sid THEN entry ELSE store[s]]

\* The del forgotten.
EvictNothing(store, sid) == store

\* if session_id in session_store: del session_store[session_id] (lines 179-180)
Evict(store, sid) == [s \in DOMAIN store \ {sid} |-> store[s]]

\* ------------------------------------------------------ request handling
\* The contents list built for Gemini (lines 130-137).
RoleOf(turn) == IF turn.sender = "scammer" THEN "user" ELSE "model"
BuildContents(hist, msg) ==
    [i \in 1 .. Len(hist) |-> [role |-> RoleOf(hist[i]), text |-> hist[i].text]]
        \o <<[role |-> "user", text |-> msg.text]>>

\* data.get('conversationHistory', []) (line 113)
SuppliedHistory(d) ==
    IF "conversationHistory" \in d.has THEN d.conversationHistory ELSE EmptyList

\* The test of line 114: fall back to the stored list.
UsesStored(d) ==
    /\ SuppliedHistory(d) = EmptyList
    /\ d.sessionId \in DOMAIN session_store

\* Lines 101-103: no key, or a key that differs from the secret.
Unauthorized(h, api_key, d) ==
    /\ pc[h] = "idle"
    /\ api_key = NoneVal \/ api_key # YOUR_API_KEY
    /\ pc' = [pc EXCEPT ![h] = "done"]
    /\ response' = [response EXCEPT ![h] = ErrorResponse(StatusUnauthorized, "Unauthorized")]
    /\ x_api_key' = [x_api_key EXCEPT ![h] = api_key]
    /\ UNCHANGED data  \* get_json() is not reached
    /\ store_before' = [store_before EXCEPT ![h] = StoreView(session_store, heap)]
    /\ UNCHANGED <<session_store, heap, session_id, incoming_message, conversation_history,
                   contents, gateway_result, model_output, dispatch_result, report, calls,
                   history_vars>>

\* Lines 106-108: the body lacks sessionId or message.
BadRequest(h, api_key, d) ==
    /\ pc[h] = "idle"
    /\ ~(api_key = NoneVal \/ api_key # YOUR_API_KEY)
    /\ d.has = {} \/ "sessionId" \notin d.has \/ "message" \notin d.has
    /\ pc' = [pc EXCEPT ![h] = "done"]
    /\ response' = [response EXCEPT ![h] = ErrorResponse(StatusBadRequest, "Invalid request body")]
    /\ x_api_key' = [x_api_key EXCEPT ![h] = api_key]
    /\ data' = [data EXCEPT ![h] = d]
    /\ store_before' = [store_before EXCEPT ![h] = StoreView(session_store, heap)]
    /\ UNCHANGED <<session_store, heap, session_id, incoming_message, conversation_history,
                   contents, gateway_result, model_output, dispatch_result, report, calls,
                   history_vars>>

AcceptedWithoutKeyCheck(api_key, d) ==
    ~(d.has = {} \/ "sessionId" \notin d.has \/ "message" \notin d.has)

\* Neither test of lines 102 and 107 fired.
Accepted(api_key, d) ==
    /\ ~(api_key = NoneVal \/ api_key # YOUR_API_KEY)
    /\ ~(d.has = {} \/ "sessionId" \notin d.has \/ "message" \notin d.has)

\* Line 137 on a message that is no object: AttributeError outside the try.
MessageCrash(h, api_key, d) ==
    /\ pc[h] = "idle"
    /\ Accepted(api_key, d)
    /\ d.message = NotAnObject
    /\ pc' = [pc EXCEPT ![h] = "done"]
    /\ response' = [response EXCEPT ![h] = UnhandledResponse]
    /\ x_api_key' = [x_api_key EXCEPT ![h] = api_key]
    /\ data' = [data EXCEPT ![h] = d]
    /\ store_before' = [store_before EXCEPT ![h] = StoreView(session_store, heap)]
    /\ UNCHANGED <<session_store, heap, session_id, incoming_message, conversation_history,
                   contents, gateway_result, model_output, dispatch_result, report, calls,
                   history_vars>>

\* Lines 110-148: resolve the history, build the prompt, call Gemini.
Begin(h, api_key, d) ==
    /\ pc[h] = "idle"
    /\ Accepted(api_key, d)
    /\ d.message # NotAnObject
    /\ LET sid == d.sessionId
           ref == IF UsesStored(d) THEN session_store[sid].history ELSE FreshRef
           hist == IF UsesStored(d) THEN heap[ref] ELSE SuppliedHistory(d)
       IN  /\ Len(hist) + 2 <= MaxHistLen
           /\ x_api_key' = [x_api_key EXCEPT ![h] = api_key]
           /\ data' = [data EXCEPT ![h] = d]
           /\ session_id' = [session_id EXCEPT ![h] = sid]
           /\ incoming_message' = [incoming_message EXCEPT ![h] = d.message]
           /\ conversation_history' = [conversation_history EXCEPT ![h] = ref]
           /\ heap' = [heap EXCEPT ![ref] = hist]
           /\ contents' = [contents EXCEPT ![h] = BuildContents(hist, d.message)]
    /\ pc' = [pc EXCEPT ![h] = "gateway"]
    /\ calls' = [calls EXCEPT ![h].gateway = @ + 1]
    /\ store_before' = [store_before EXCEPT ![h] = StoreView(session_store, heap)]
    /\ UNCHANGED <<session_store, gateway_result, model_output, dispatch_result,
                   report, response, history_vars>>

\* --------------------------------------------------------- the Gemini call
\* The except clauses of lines 192-213 (and the framework, when the handler
\* of line 192 raises itself).
FailureResponse(result) ==
    CASE result = "http_error" -> ErrorResponse(StatusUpstream, "AI Service Error")
      [] result = "http_error_odd_body" -> UnhandledResponse
      [] OTHER -> ErrorResponse(StatusInternal, "Internal server error")

\* A failing call that still records the incoming message in the list.
GatewayFailAppends(h, result) ==
    /\ pc[h] = "gateway"
    /\ result \in GatewayFailures
    /\ gateway_result' = [gateway_result EXCEPT ![h] = result]
    /\ response' = [response EXCEPT ![h] = FailureResponse(result)]
    /\ pc' = [pc EXCEPT ![h] = "done"]
    /\ heap' = [heap EXCEPT ![conversation_history[h]] = Append(@, incoming_message[h])]
    /\ terminated' = terminated \ {session_id[h]}
    /\ UNCHANGED <<session_store, locals, model_output, dispatch_result, report, calls,
                   turn_log, cumulative, explicit_used, stale, store_before>>

\* The Gemini call fails: nothing between line 148 and line 154 completes.
GatewayFail(h, result) ==
    /\ pc[h] = "gateway"
    /\ result \in GatewayFailures
    /\ gateway_result' = [gateway_result EXCEPT ![h] = result]
    /\ response' = [response EXCEPT ![h] = FailureResponse(result)]
    /\ pc' = [pc EXCEPT ![h] = "done"]
    /\ terminated' = terminated \ {session_id[h]}
    /\ UNCHANGED <<session_store, heap, locals, model_output, dispatch_result, report,
                   calls, turn_log, cumulative, explicit_used, stale, store_before>>

\* Lines 156-159: the four reads of model_output, with their defaults.
AgentReplyText(mo) == Get(mo, "agentResponseText", NoneVal)
IsOverAlways(mo) == TRUE

IsOver(mo) == Get(mo, "isConversationOver", FALSE)
Intelligence(mo) == Get(mo, "extractedIntelligence", EmptyDict)
AgentNotes(mo) == Get(mo, "agentNotes", "")

\* The appends in the other order: the reply first.
AppendTurnsAgentFirst(hist, msg, reply) == Append(Append(hist, AgentTurn(reply)), msg)

\* Lines 162-167: the two appends to conversation_history.
AppendTurns(hist, msg, reply) == Append(Append(hist, msg), AgentTurn(reply))

\* Lines 169-173: the dict stored for the session.
StoredEntry(ref, mo) ==
    [history |-> ref, intelligence |-> Intelligence(mo), agent_notes |-> AgentNotes(mo)]

\* The length taken as the number of exchanges, not of messages.
TotalMessagesHalved(hist) == Len(hist) \div 2

\* Line 177: total_messages.
TotalMessages(hist) == Len(hist)

\* Lines 80-86: the payload of the final report, as called at line 178.
FinalReport(sid, hist, mo) ==
    [sessionId |-> sid,
     scamDetected |-> TRUE,
     totalMessagesExchanged |-> TotalMessages(hist),
     extractedIntelligence |-> Intelligence(mo),
     agentNotes |-> AgentNotes(mo)]

\* Lines 183-190: the success response of the turn.
TurnResponse(sid, mo) ==
    SuccessResponse(AgentReplyText(mo), IsOver(mo), sid, Intelligence(mo), AgentNotes(mo))

\* What the claims measure the code against: the union of a session's
\* deltas, category by category.
UnionOfDeltas(cum, delta) == [c \in Categories |-> cum[c] \cup ArtifactsIn(delta, c)]

\* The handler's list is the non-empty one its caller sent, not the stored one.
OwnHistory(h) ==
    /\ heap[conversation_history[h]] # EmptyList
    /\ \/ session_id[h] \notin DOMAIN session_store
       \/ session_store[session_id[h]].history # conversation_history[h]

\* The Gemini call succeeds (lines 148-178): parse, append, store, and on a
\* terminal turn start the report call.
GatewaySuccess(h, mo) ==
    /\ pc[h] = "gateway"
    /\ mo \in ModelOutputs
    /\ LET sid == session_id[h]
           ref == conversation_history[h]
           hist == AppendTurns(heap[ref], incoming_message[h], AgentReplyText(mo))
           store == Put(session_store, sid, StoredEntry(ref, mo))
       IN  /\ Len(heap[ref]) + 2 <= MaxHistLen
           /\ session_store' = store
           /\ heap' = Collect([heap EXCEPT ![ref] = hist], store, conversation_history)
           /\ IF IsOver(mo)
              THEN /\ report' = [report EXCEPT ![h] = FinalReport(sid, hist, mo)]
                   /\ calls' = [calls EXCEPT ![h].report = @ + 1]
                   /\ pc' = [pc EXCEPT ![h] = "report"]
                   /\ UNCHANGED response
              ELSE /\ response' = [response EXCEPT ![h] = TurnResponse(sid, mo)]
                   /\ pc' = [pc EXCEPT ![h] = "done"]
                   /\ UNCHANGED <<report, calls>>
           /\ turn_log' = [turn_log EXCEPT ![sid] =
                              IF explicit_used[sid] \/ OwnHistory(h) THEN EmptyList
                              ELSE Append(@, <<incoming_message[h], AgentTurn(AgentReplyText(mo))>>)]
           /\ cumulative' = [cumulative EXCEPT ![sid] = UnionOfDeltas(@, Intelligence(mo))]
           /\ explicit_used' = [explicit_used EXCEPT ![sid] = @ \/ OwnHistory(h)]
           /\ terminated' = terminated \ {sid}
    /\ gateway_result' = [gateway_result EXCEPT ![h] = "ok"]
    /\ model_output' = [model_output EXCEPT ![h] = mo]
    /\ UNCHANGED <<locals, dispatch_result, stale, store_before>>

\* ------------------------------------------- the success path, line by line
\* With several requests in flight (the server runs the handler on a thread
\* per request and the code takes no lock), another handler may run between
\* the statements of lines 162, 163 and 169.  The three actions below are
\* GatewaySuccess cut at those points.

\* Lines 148-162: the reply is parsed and the scammer's message appended.
GatewayReply(h, mo) ==
    /\ pc[h] = "gateway"
    /\ mo \in ModelOutputs
    /\ gateway_result' = [gateway_result EXCEPT ![h] = "ok"]
    /\ model_output' = [model_output EXCEPT ![h] = mo]
    /\ heap' = [heap EXCEPT ![conversation_history[h]] = Append(@, incoming_message[h])]
    /\ pc' = [pc EXCEPT ![h] = "appending"]
    /\ UNCHANGED <<session_store, locals, dispatch_result, report, response, calls,
                   history_vars, store_before>>

\* Lines 163-167: the agent's reply is appended.
AppendReply(h) ==
    /\ pc[h] = "appending"
    /\ heap' = [heap EXCEPT ![conversation_history[h]] =
                    Append(@, AgentTurn(AgentReplyText(model_output[h])))]
    /\ pc' = [pc EXCEPT ![h] = "storing"]
    /\ UNCHANGED <<session_store, locals, gateway_result, model_output, dispatch_result,
                   report, response, calls, history_vars, store_before>>

\* Lines 169-178: the session is stored; a terminal turn goes on to the
\* report call, any other to its response.
StoreSession(h) ==
    /\ pc[h] = "storing"
    /\ LET sid == session_id[h]
           ref == conversation_history[h]
           mo == model_output[h]
       IN  /\ session_store' = Put(session_store, sid, StoredEntry(ref, mo))
           /\ IF IsOver(mo)
              THEN /\ report' = [report EXCEPT ![h] = FinalReport(sid, heap[ref], mo)]
                   /\ calls' = [calls EXCEPT ![h].report = @ + 1]
                   /\ pc' = [pc EXCEPT ![h] = "report"]
                   /\ UNCHANGED response
              ELSE /\ response' = [response EXCEPT ![h] = TurnResponse(sid, mo)]
                   /\ pc' = [pc EXCEPT ![h] = "done"]
                   /\ UNCHANGED <<report, calls>>
    /\ UNCHANGED <<heap, locals, gateway_result, model_output, dispatch_result,
                   history_vars, store_before>>

\* ---------------------------------------------------------- the report call
\* Lines 87-93 and 179-190: the report call returns, or raises.
DispatchReturn(h, result) ==
    /\ pc[h] = "report"
    /\ result \in DispatchResults
    /\ dispatch_result' = [dispatch_result EXCEPT ![h] = result]
    /\ pc' = [pc EXCEPT ![h] = "done"]
    /\ IF result = "other_exception"
       THEN \* not a RequestException: it leaves send_final_report and is
            \* caught at line 211
            /\ response' = [response EXCEPT ![h] =
                               ErrorResponse(StatusInternal, "Internal server error")]
            /\ UNCHANGED <<session_store, heap, history_vars>>
       ELSE LET sid == session_id[h]
                store == Evict(session_store, sid)
            IN  /\ session_store' = store
                /\ heap' = Collect(heap, store, conversation_history)
                /\ response' = [response EXCEPT ![h] = TurnResponse(sid, model_output[h])]
                /\ terminated' = terminated \cup {sid}
                /\ stale' = stale \cup {g \in Handlers \ {h} :
                                          pc[g] \notin {"idle", "done"} /\ session_id[g] = sid}
                /\ UNCHANGED <<turn_log, cumulative, explicit_used>>
    /\ UNCHANGED <<locals, gateway_result, model_output, report, calls, store_before>>

\* The session is in the store no more.
Gone(s) == s \notin DOMAIN session_store

\* The response is sent; the handler's locals die.
Return(h) ==
    /\ pc[h] = "done"
    /\ pc' = [pc EXCEPT ![h] = "idle"]
    /\ x_api_key' = [x_api_key EXCEPT ![h] = NoneVal]
    /\ data' = [data EXCEPT ![h] = NoData]
    /\ session_id' = [session_id EXCEPT ![h] = "s1"]
    /\ incoming_message' = [incoming_message EXCEPT ![h] = ScammerTurn("hello")]
    /\ conversation_history' = [conversation_history EXCEPT ![h] = NullRef]
    /\ contents' = [contents EXCEPT ![h] = EmptyList]
    /\ gateway_result' = [gateway_result EXCEPT ![h] = "none"]
    /\ model_output' = [model_output EXCEPT ![h] = NoModelOutput]
    /\ dispatch_result' = [dispatch_result EXCEPT ![h] = "none"]
    /\ report' = [report EXCEPT ![h] = NoReport]
    /\ response' = [response EXCEPT ![h] = NoResponse]
    /\ calls' = [calls EXCEPT ![h] = NoCalls]
    /\ stale' = stale \ {h}
    /\ store_before' = [store_before EXCEPT ![h] = NoStoreView]
    /\ heap' = Collect(heap, session_store, conversation_history')
    \* the histories of a session that is gone start afresh
    /\ turn_log' = [s \in Sessions |-> IF Gone(s) THEN EmptyList ELSE turn_log[s]]
    /\ cumulative' = [s \in Sessions |-> IF Gone(s) THEN NoIntelligence ELSE cumulative[s]]
    /\ explicit_used' = [s \in Sessions |-> IF Gone(s) THEN FALSE ELSE explicit_used[s]]
    /\ UNCHANGED <<session_store, terminated>>

\* ------------------------------------------------------ the specification
\* One request at a time: a request arrives only when no handler is running.
\* The requests of Spec are all for one session.
SpecSessions == {"s1"}
\* One handler serves them.
SpecHandlers == {"h1"}

NoneRunning == \A h \in Handlers : pc[h] = "idle"

\* The request bodies of Spec.
SpecBodies == {d \in RequestBodies : d.sessionId \in SpecSessions}

Next ==
    \/ NoneRunning /\ \E h \in SpecHandlers, k \in ApiKeys, d \in SpecBodies : Unauthorized(h, k, d)
    \/ NoneRunning /\ \E h \in SpecHandlers, k \in ApiKeys, d \in SpecBodies : BadRequest(h, k, d)
    \/ NoneRunning /\ \E h \in SpecHandlers, k \in ApiKeys, d \in SpecBodies : MessageCrash(h, k, d)
    \/ NoneRunning /\ \E h \in SpecHandlers, k \in ApiKeys, d \in SpecBodies : Begin(h, k, d)
    \/ \E h \in Handlers, r \in GatewayFailures : GatewayFail(h, r)
    \/ \E h \in Handlers, mo \in ModelOutputs : GatewaySuccess(h, mo)
    \/ \E h \in Handlers, r \in DispatchResults : DispatchReturn(h, r)
    \/ \E h \in Handlers : Return(h)

Spec == Init /\ [][Next]_vars

\* --------------------------------------------- two sessions, one at a time
\* Requests for both sessions, served one at a time by one handler.  The
\* bodies carry one message text and a list of none or two entries;
\* the replies hold all four fields.
IsoBodies ==
    {d \in RequestBodies :
        /\ d.message \in {ScammerTurn("hello"), NotAnObject}
        /\ Len(d.conversationHistory) # 1}
IsoOutputs == {mo \in ModelOutputs : mo.has = RequiredFields}

NextIso ==
    \/ NoneRunning /\ \E h \in SpecHandlers, k \in ApiKeys, d \in IsoBodies : Unauthorized(h, k, d)
    \/ NoneRunning /\ \E h \in SpecHandlers, k \in ApiKeys, d \in IsoBodies : BadRequest(h, k, d)
    \/ NoneRunning /\ \E h \in SpecHandlers, k \in ApiKeys, d \in IsoBodies : MessageCrash(h, k, d)
    \/ NoneRunning /\ \E h \in SpecHandlers, k \in ApiKeys, d \in IsoBodies : Begin(h, k, d)
    \/ \E h \in SpecHandlers, r \in GatewayFailures : GatewayFail(h, r)
    \/ \E h \in SpecHandlers, mo \in IsoOutputs : GatewaySuccess(h, mo)
    \/ \E h \in SpecHandlers, r \in DispatchResults : DispatchReturn(h, r)
    \/ \E h \in SpecHandlers : Return(h)

SpecIso == Init /\ [][NextIso]_vars

\* ------------------------------------------- one session, two at a time
\* Two handlers serve requests for one session with no order between them.
\* The requests pass both checks and carry no list of their own; the replies
\* hold all four fields and no intelligence; a failed call to Gemini is one
\* that did not connect or one that got an error status.
ConcBodies ==
    {d \in RequestBodies :
        /\ d.has = {"sessionId", "message"}
        /\ d.sessionId \in SpecSessions
        /\ d.message \in Messages}
ConcOutputs ==
    {mo \in ModelOutputs : mo.has = RequiredFields /\ mo.extractedIntelligence = EmptyDict}
ConcFailures == {"connection_error", "http_error"}

NextConc ==
    \/ \E h \in Handlers, d \in ConcBodies : Begin(h, YOUR_API_KEY, d)
    \/ \E h \in Handlers, r \in ConcFailures : GatewayFail(h, r)
    \/ \E h \in Handlers, mo \in ConcOutputs : GatewayReply(h, mo)
    \/ \E h \in Handlers : AppendReply(h)
    \/ \E h \in Handlers : StoreSession(h)
    \/ \E h \in Handlers, r \in DispatchResults : DispatchReturn(h, r)
    \/ \E h \in Handlers : Return(h)

SpecConc == Init /\ [][NextConc]_vars

\* ================================================================= claims
\* What a handler sees of its own turn.
Done(h) == pc[h] = "done"
Succeeded(h) == Done(h) /\ response[h].code = StatusOk
GatewayFailed(h) == Done(h) /\ gateway_result[h] \in GatewayFailures
Stored(s) == s \in DOMAIN session_store
StoredHistory(s) == heap[session_store[s].history]

\* C1: intelligence accumulation is monotonic: in every step that keeps a
\* session stored, the artifacts stored for it in each of the five
\* categories after the step include those stored before it.
C1_MonotonicAccumulation ==
    [][\A s \in Sessions :
          (Stored(s) /\ s \in DOMAIN session_store') =>
              \A c \in Categories :
                  ArtifactsIn(session_store[s].intelligence, c)
                      \subseteq ArtifactsIn(session_store'[s].intelligence, c)]_vars

\* C2 as stated: the stored history after N turns has length 2N, that is,
\* a fresh session stores nothing and every turn that passes the Gateway
\* leaves a stored history two longer than the one stored before it.
C2_LengthTwicePerTurn ==
    [][\A h \in Handlers :
          (pc[h] = "gateway" /\ gateway_result'[h] = "ok") =>
              Len(heap'[session_store'[session_id[h]].history])
                  = 2 + (IF Stored(session_id[h]) THEN Len(StoredHistory(session_id[h])) ELSE 0)]_vars

\* C2 amended: while no turn of the session ran on a history sent by the
\* caller, the stored history after N turns that passed the Gateway has
\* length 2N, position 2i-1 holds the i-th incoming message and position
\* 2i the agent turn made of the i-th reply.
C2_HistoryIsTurnLog ==
    \A s \in Sessions :
        (Stored(s) /\ ~explicit_used[s]) =>
            LET hist == StoredHistory(s)
                N == Len(turn_log[s])
            IN  /\ Len(hist) = 2 * N
                /\ \A i \in 1 .. N :
                      /\ hist[2 * i - 1] = turn_log[s][i][1]
                      /\ hist[2 * i] = turn_log[s][i][2]
                      /\ hist[2 * i].sender = "agent"

\* Two turns on the stored history, with different messages.
C2_Witness ==
    \E s \in Sessions :
        /\ Stored(s) /\ ~explicit_used[s]
        /\ Len(turn_log[s]) = 2
        /\ Len(StoredHistory(s)) = 4
        /\ turn_log[s][1][1] # turn_log[s][2][1]

\* C3: after a turn whose Gateway call failed, session_store holds what it
\* held when the request arrived: the same sessions, each with the same
\* history, intelligence and notes.
C3_FailureLeavesStore ==
    \A h \in Handlers :
        GatewayFailed(h) => StoreView(session_store, heap) = store_before[h]

\* A failed turn on a stored session, and a failed turn on an unknown one.
C3_Witness ==
    \E h \in Handlers :
        /\ GatewayFailed(h)
        /\ gateway_result[h] = "bad_payload"
        /\ Stored(session_id[h])
        /\ Len(StoredHistory(session_id[h])) = 2
        /\ session_store[session_id[h]].history = conversation_history[h]

C5_ReportFailureHarmless ==
    \A h \in Handlers :
        (Done(h) /\ dispatch_result[h] \in {"non_200", "request_exception", "other_exception"}) =>
            /\ response[h].code = StatusOk
            /\ response[h].body.conversationIsOver = TRUE
            /\ ~Stored(session_id[h])

\* C6: the extractedIntelligence of the final report is, category by
\* category, the union of the deltas of all the session's turns.
C6_ReportIsCumulative ==
    \A h \in Handlers :
        report[h] # NoReport =>
            \A c \in Categories :
                ArtifactsIn(report[h].extractedIntelligence, c) = cumulative[session_id[h]][c]

\* C7: the success response carries the cumulative record after this
\* turn's merge, and this turn's notes.
C7_ResponseIsCumulative ==
    \A h \in Handlers :
        Succeeded(h) =>
            /\ \A c \in Categories :
                  ArtifactsIn(response[h].body.extractedIntelligence, c)
                      = cumulative[session_id[h]][c]
            /\ response[h].body.agentNotes = AgentNotes(model_output[h])

\* C8: the totalMessagesExchanged of the final report is the length of the
\* session's history after the turn's two appends, and 2N on the N-th turn
\* of a session driven through the stored history.
C8_TotalIsHistoryLength ==
    \A h \in Handlers :
        report[h] # NoReport =>
            /\ report[h].totalMessagesExchanged = Len(heap[conversation_history[h]])
            /\ ~explicit_used[session_id[h]] =>
                  report[h].totalMessagesExchanged = 2 * Len(turn_log[session_id[h]])

\* A session that ends on its second turn: the report says 4.
C8_Witness ==
    \E h \in Handlers :
        /\ report[h] # NoReport
        /\ ~explicit_used[session_id[h]]
        /\ Len(turn_log[session_id[h]]) = 2
        /\ report[h].totalMessagesExchanged = 4

\* C9: a reply of Gemini that lacks one of the four required fields makes
\* the turn fail, with the store as it was when the request arrived.
C9_MissingFieldFails ==
    \A h \in Handlers :
        (Done(h) /\ gateway_result[h] = "ok" /\ model_output[h].has # RequiredFields) =>
            /\ response[h].code # StatusOk
            /\ StoreView(session_store, heap) = store_before[h]

\* C10: every failure of the Gemini call is answered with the upstream
\* status, which is none of the other failure statuses, and a failure
\* response has no field of the success shape.
C10_UpstreamStatus ==
    \A h \in Handlers :
        /\ GatewayFailed(h) =>
              /\ response[h].code = StatusUpstream
              /\ StatusUpstream \notin {StatusInternal, StatusBadRequest, StatusUnauthorized}
        /\ (Done(h) /\ response[h].code # StatusOk) =>
              DOMAIN response[h].body \cap SuccessFields = {}

\* ---------------------------------------------------------------- C11
BadKey(h) == x_api_key[h] = NoneVal \/ x_api_key[h] # YOUR_API_KEY
LacksField(h) == "sessionId" \notin data[h].has \/ "message" \notin data[h].has
MadeNoCall(h) ==
    /\ calls[h] = NoCalls
    /\ gateway_result[h] = "none"
    /\ dispatch_result[h] = "none"
    /\ report[h] = NoReport

\* C11: a request with a missing or wrong x-api-key, or with a body that lacks
\* sessionId or message, is answered 401 (resp. 400) at once, with the store
\* as it was when the request arrived (no session created, none changed) and
\* with no call to Gemini and none to the evaluation endpoint.
C11_RejectedTouchesNothing ==
    \A h \in Handlers :
        (pc[h] # "idle" /\ (BadKey(h) \/ LacksField(h))) =>
            /\ Done(h)
            /\ response[h].code = IF BadKey(h) THEN StatusUnauthorized ELSE StatusBadRequest
            /\ StoreView(session_store, heap) = store_before[h]
            /\ MadeNoCall(h)

\* Both rejections have happened while a session was stored.
C11_Witness ==
    \E h \in Handlers :
        /\ Done(h)
        /\ ~BadKey(h) /\ LacksField(h)
        /\ response[h].code = StatusBadRequest
        /\ DOMAIN session_store # {}

\* ---------------------------------------------------------------- C12
HasEveryCategory(intel) == DOMAIN intel = Categories

\* C12: every stored Intelligence Record, and the extractedIntelligence of
\* every success response and of every final report, has all five category
\* keys; a reply whose extractedIntelligence is {} shows five empty arrays.
C12_EveryCategoryPresent ==
    /\ \A s \in DOMAIN session_store : HasEveryCategory(session_store[s].intelligence)
    /\ \A h \in Handlers :
        /\ Succeeded(h) => HasEveryCategory(response[h].body.extractedIntelligence)
        /\ report[h] # NoReport => HasEveryCategory(report[h].extractedIntelligence)

\* ---------------------------------------------------------------- C13
\* The history the turn is to work on: the caller's list when the body has
\* a conversationHistory (an empty one included), else the list stored for
\* the session when the request arrived, else the empty list.
ResolvedHistory(h) ==
    IF "conversationHistory" \in data[h].has THEN data[h].conversationHistory
    ELSE IF session_id[h] \in DOMAIN store_before[h]
         THEN store_before[h][session_id[h]].history
         ELSE EmptyList

\* C13: while the call to Gemini is out, the history the turn works on and
\* the prompt built from it are those of the caller's explicit
\* conversationHistory whenever there is one, whatever is stored.
C13_ExplicitHistoryWins ==
    \A h \in Handlers :
        pc[h] = "gateway" =>
            /\ heap[conversation_history[h]] = ResolvedHistory(h)
            /\ contents[h] = BuildContents(ResolvedHistory(h), incoming_message[h])

\* ---------------------------------------------------------------- C16
\* The entry line 169 wrote for the handler's turn, lists in place of references.
PostTurnEntry(h) ==
    [history |-> heap[conversation_history[h]],
     intelligence |-> Get(model_output[h], "extractedIntelligence", EmptyDict),
     agent_notes |-> Get(model_output[h], "agentNotes", "")]

Dispatched(h) == dispatch_result[h] # "none"

\* C16: on a terminal turn the session is stored with its post-turn state
\* while the report is being sent, and once the dispatcher is through,
\* however it ended, the session is gone from the store.
C16_StoreReportEvict ==
    \A h \in Handlers :
        /\ pc[h] = "report" =>
              /\ Stored(session_id[h])
              /\ StoreView(session_store, heap)[session_id[h]] = PostTurnEntry(h)
        /\ (Done(h) /\ Dispatched(h)) => ~Stored(session_id[h])

\* ---------------------------------------------------------------- C17
TerminalReply(h) ==
    /\ gateway_result[h] = "ok"
    /\ Get(model_output[h], "isConversationOver", FALSE)

\* C17: a request makes at most one call to Gemini and at most one to the
\* evaluation endpoint; a finished request has made the report call exactly
\* when its Gemini call succeeded with isConversationOver true, and a
\* request that made no Gemini call made no report call.
C17_ExactlyOnceFinalization ==
    \A h \in Handlers :
        /\ calls[h].gateway <= 1
        /\ calls[h].report <= 1
        /\ calls[h].report <= calls[h].gateway
        /\ pc[h] = "report" => calls[h].report = 1 /\ TerminalReply(h)
        /\ Done(h) => (calls[h].report = 1 <=> TerminalReply(h))

\* A terminal turn has finished with one call of each kind.
C17_Witness ==
    \E h \in Handlers :
        /\ Done(h)
        /\ TerminalReply(h)
        /\ calls[h] = [gateway |-> 1, report |-> 1]
        /\ Dispatched(h)

\* ---------------------------------------------------------------- C18
\* The session the handler's request reads and writes: the body's sessionId
\* once the request is past validation (line 110).
Targets(h) == IF calls[h].gateway > 0 THEN {session_id[h]} ELSE {}

\* Session s is as it was when the handler's request arrived.
Untouched(h, s) ==
    LET now == StoreView(session_store, heap)
    IN  /\ s \in DOMAIN now <=> s \in DOMAIN store_before[h]
        /\ s \in DOMAIN now => now[s] = store_before[h][s]

\* C18: whatever a request does and however it ends, every session other
\* than its own is in the store exactly when it was there before, with the
\* same history, intelligence and notes.
C18_OtherSessionsUntouched ==
    \A h \in Handlers :
        pc[h] # "idle" => \A s \in Sessions \ Targets(h) : Untouched(h, s)

\* A terminal turn of a stored s1 has ended with s1 evicted, and s2 is still
\* in the store.
C18_Witness ==
    \E h \in Handlers :
        /\ Succeeded(h)
        /\ session_id[h] = "s1"
        /\ "s1" \in DOMAIN store_before[h]
        /\ ~Stored("s1")
        /\ Stored("s2")

\* ---------------------------------------------------------------- C14
\* The handler's turn was stored and was not the last of its session.
StoredTurn(h) == Succeeded(h) /\ ~response[h].body.conversationIsOver

\* The history the session had when the handler's request arrived.
BaseHistory(h) ==
    IF session_id[h] \in DOMAIN store_before[h]
    THEN store_before[h][session_id[h]].history
    ELSE EmptyList

\* The handler's two entries sit side by side in hist, after the first n.
TurnKept(h, hist, n) ==
    \E i \in (n + 1) .. (Len(hist) - 1) :
        /\ hist[i] = incoming_message[h]
        /\ hist[i + 1] = AgentTurn(response[h].body.agentReply)

Alternates(hist) ==
    \A i \in 1 .. (Len(hist) - 1) : hist[i].sender # hist[i + 1].sender

\* C14: when two handlers have both stored a turn of one session, each
\* having found the session in the same state, the stored history is that
\* state's history followed by both turns: four entries more, none lost,
\* each scammer entry next to its agent reply, senders alternating.
C14_BothTurnsKept ==
    \A h, g \in Handlers :
        (/\ h # g
         /\ StoredTurn(h) /\ StoredTurn(g)
         /\ session_id[h] = session_id[g]
         /\ store_before[h] = store_before[g]) =>
            /\ Stored(session_id[h])
            /\ LET hist == StoredHistory(session_id[h])
                   n == Len(BaseHistory(h))
               IN  /\ Len(hist) = n + 4
                   /\ SubSeq(hist, 1, n) = BaseHistory(h)
                   /\ TurnKept(h, hist, n) /\ TurnKept(g, hist, n)
                   /\ Alternates(SubSeq(hist, n + 1, Len(hist)))

\* ---------------------------------------------------------------- C15
\* C15: a handler that was serving a session when another handler's terminal
\* turn evicted it never puts the session back: its store step (line 169)
\* leaves the session absent.
C15_EvictedStaysEvicted ==
    [][\A h \in stale :
          (pc[h] = "storing" /\ pc'[h] # "storing") =>
              session_id[h] \notin DOMAIN session_store']_vars

====
